---- MODULE Spec2Model ----
(***************************************************************************)
(* A model of KnexRepository (src/unnamed/part_000): the repository's      *)
(* operations over one backend collection, the attached transaction, and   *)
(* the pagination and archived-flag arithmetic.                            *)
(*                                                                         *)
(* The storage backend (this.model / this.query) is an injected library.   *)
(* It is modelled as a document collection: a sequence of records in       *)
(* insertion order, a filter key with value undefined matching records    *)
(* whose field is absent or null, {$ne: undefined} matching records whose *)
(* field is set, and a filter key no record has matching no record.        *)
(* Identifiers the file uses without declaring them are read as the        *)
(* evident binding: `_id` in byID is its id parameter (repo.interface.ts   *)
(* names it _id), `this.session` is an instance field nothing assigns.     *)
(* Record ids are strings in the code; the model names them 1..MaxId.      *)
(***************************************************************************)
EXTENDS Integers, Sequences, FiniteSets, TLC

\* ------------------------------------------------------------------ bounds
MaxId == 2
MaxClock == 2
MaxPage == 2
MaxLimit == 2

Ids == 1..MaxId
Handles == {"t1", "t2"}

\* ------------------------------------------------------- JavaScript values
JSUndefined == [k |-> "undefined", s |-> "", n |-> 0]
JSNull == [k |-> "null", s |-> "", n |-> 0]
JSNaN == [k |-> "NaN", s |-> "", n |-> 0]
JSBool(b) == [k |-> "boolean", s |-> IF b THEN "true" ELSE "false", n |-> 0]
JSStr(x) == [k |-> "string", s |-> x, n |-> 0]
JSNum(i) == [k |-> "number", s |-> "", n |-> i]

\* ToBoolean: what `x || y`, `if (x)` and `!x` see.
Truthy(v) ==
  CASE v.k = "boolean" -> v.s = "true"
    [] v.k = "string" -> v.s # ""
    [] v.k = "number" -> v.n # 0
    [] OTHER -> FALSE

\* `x || y`
JSOr(x, y) == IF Truthy(x) THEN x ELSE y

\* Number(x) on the inputs the model draws: decimal strings by table.
ToNumber(v) ==
  CASE v.k = "number" -> v
    [] v.k = "boolean" -> JSNum(IF v.s = "true" THEN 1 ELSE 0)
    [] v.k = "null" -> JSNum(0)
    [] v.k = "string" ->
         (CASE v.s = "" -> JSNum(0)
            [] v.s = "0" -> JSNum(0)
            [] v.s = "1" -> JSNum(1)
            [] v.s = "2" -> JSNum(2)
            [] v.s = "3" -> JSNum(3)
            [] OTHER -> JSNaN)
    [] OTHER -> JSNaN

\* x - 1 (NaN stays NaN)
JSMinusOne(v) == IF v.k = "number" THEN JSNum(v.n - 1) ELSE JSNaN

\* Math.ceil(a / b) for a >= 0, b > 0
CeilDiv(a, b) == (a + b - 1) \div b

\* ------------------------------------------------------------ the records
\* deleted_at / deletedAt: a Date (1..MaxClock) or NoDate (absent or null).
\* deleted_at is the column of knex.types.ts Model; deletedAt is no column of
\* it, so no typed create or update writes it and a stored record never has
\* it. softDelete sets it on the object it returns (line 394), and paginate
\* filters on it (lines 288-290).
NoDate == 0
NoRecord == [_id |-> 0, deleted_at |-> NoDate, deletedAt |-> NoDate]

\* A condition argument: a string (an id), or an object: {_id: i}, or {} when
\* i = 0.
StrCond(i) == [t |-> "string", _id |-> i]
ObjCond(i) == [t |-> "object", _id |-> i]
NoCond == [t |-> "none", _id |-> 0]

\* A backend filter: the keys of the condition plus the archival key.
\* idx: the filter holds character-index keys ("0", "1", ...), which is what
\* spreading a string gives; no record has such a field.
MkFilter(i, ix, d) == [_id |-> i, idx |-> ix, del |-> d]

DelMatches(r, d) ==
  CASE d = "deleted_at:undefined" -> r.deleted_at = NoDate
    [] d = "deleted_at:$ne" -> r.deleted_at # NoDate
    [] d = "deletedAt:undefined" -> r.deletedAt = NoDate
    [] d = "deletedAt:$ne" -> r.deletedAt # NoDate
    [] d = "$or" -> (r.deleted_at # NoDate) \/ (r.deleted_at = NoDate)
    [] OTHER -> TRUE

Matches(r, f) ==
  /\ f._id # 0 => r._id = f._id
  /\ ~f.idx
  /\ DelMatches(r, f.del)

\* ------------------------------------------------------ the backend calls
Find(s, f) == SelectSeq(s, LAMBDA r : Matches(r, f))
FindOne(s, f) == IF Find(s, f) = <<>> THEN NoRecord ELSE Head(Find(s, f))
CountDocuments(s, f) == Len(Find(s, f))
IdsOf(rows) == {rows[j]._id : j \in 1..Len(rows)}

\* The position of the first record a filter matches, 0 when there is none.
FirstIndex(s, f) ==
  IF \E j \in 1..Len(s) : Matches(s[j], f)
  THEN CHOOSE j \in 1..Len(s) :
         Matches(s[j], f) /\ \A h \in 1..(j - 1) : ~Matches(s[h], f)
  ELSE 0

RemoveAt(s, j) == SubSeq(s, 1, j - 1) \o SubSeq(s, j + 1, Len(s))
DeleteManyIn(s, f) == SelectSeq(s, LAMBDA r : ~Matches(r, f))

\* An update document over deleted_at, a field of Table.Updatable:
\* {deleted_at: null} clears it, {deleted_at: <the caller's new Date()>} sets it.
ApplyPatch(r, patch, now) ==
  CASE patch.v = "null" -> [r EXCEPT !.deleted_at = NoDate]
    [] patch.v = "now" -> [r EXCEPT !.deleted_at = now]
    [] OTHER -> r

UpdateManyIn(s, f, patch, now) ==
  [j \in 1..Len(s) |-> IF Matches(s[j], f) THEN ApplyPatch(s[j], patch, now) ELSE s[j]]

\* ------------------------------------------------- private helper methods
\* A variant that tests truthiness instead of the four listed values.
convertArchived_truthy(archived) ==
  IF Truthy(archived) /\ archived # JSStr("false") THEN TRUE ELSE FALSE

\* lines 49-50
convertArchived(archived) ==
  IF archived \in {JSUndefined, JSStr("false"), JSBool(FALSE), JSNull}
  THEN FALSE ELSE TRUE

getQuery(condition) ==
  IF condition.t = "string"
  THEN MkFilter(condition._id, FALSE, "none")
  ELSE MkFilter(condition._id, FALSE, "none")

\* {...query}: the own enumerable keys of the argument.
Spread(query) ==
  IF query.t = "string"
  THEN MkFilter(0, TRUE, "none")
  ELSE MkFilter(query._id, FALSE, "none")

withTransaction(tx) == IF tx # "null" THEN tx ELSE "none"

\* this.session: read by every mongoose-style call, assigned nowhere.
session == "undefined"
SessionOf(sess) == IF sess = "undefined" THEN "none" ELSE sess

\* ------------------------------------------------------------------ state
VARIABLES
  store,        \* the collection: a sequence of records, in insertion order
  clock,        \* what new Date() returns
  transaction,  \* this.transaction: "null" or a handle
  pending,      \* a softDelete between its lookup and its update
  last,         \* the last completed call: arguments, outcome, backend use
  sdResolved,   \* ids whose softDelete resolved, not hard-deleted since
  sdIntact      \* same, and no update wrote their deletion timestamp since

vars == <<store, clock, transaction, pending, last, sdResolved, sdIntact>>

NoPending == [active |-> FALSE, cond |-> NoCond, old |-> NoRecord,
              pre |-> "n/a", zero |-> FALSE, handles |-> {}, tx |-> "null"]

\* zero: no record matched the call's identity condition when it was made.
\* written: the id of the record the call's backend write changed, 0 for none.
\* pre: for softDelete, the state of the record its condition names by id.
\* handles: the handle of each backend call made ("none": made with no handle).
\* tx: this.transaction when the call was issued.
NoCall == [op |-> "none", cond |-> NoCond, arch |-> JSUndefined, tx |-> "null",
           outcome |-> "none", zero |-> FALSE, ret |-> NoRecord,
           retIds |-> <<>>, handles |-> {}, written |-> 0, pre |-> "n/a",
           convIn |-> JSUndefined, convOut |-> FALSE, convCalled |-> FALSE,
           inPage |-> JSUndefined, inLimit |-> JSUndefined,
           page |-> 0, limit |-> 0, offset |-> 0, current |-> 0,
           prev |-> JSNull, next |-> JSNull, total |-> 0, pages |-> 0]

Init ==
  /\ store = <<>>
  /\ clock = 1
  /\ transaction = "null"
  /\ pending = NoPending
  /\ last = NoCall
  /\ sdResolved = {}
  /\ sdIntact = {}

\* Time passes between calls.
Tick ==
  /\ clock < MaxClock
  /\ clock' = clock + 1
  /\ UNCHANGED <<store, transaction, pending, last, sdResolved, sdIntact>>

\* create(attributes): insert one record; the backend refuses a duplicate id.
create(attributes) ==
  /\ \A j \in 1..Len(store) : store[j]._id # attributes._id
  /\ store' = Append(store, attributes)
  /\ last' = [NoCall EXCEPT !.op = "create", !.tx = transaction, !.outcome = "resolved",
                !.ret = attributes, !.handles = {withTransaction(transaction)}]
  /\ UNCHANGED <<clock, transaction, pending, sdResolved, sdIntact>>

\* ---- byID (lines 105-148)
byIDFilter(id, archived) ==
  MkFilter(id, FALSE,
           IF ~archived THEN "deleted_at:undefined" ELSE "deleted_at:$ne")

ByIDCall(s, id, optArchived) ==
  LET archived == convertArchived(JSOr(optArchived, JSBool(FALSE)))
      f == byIDFilter(id, archived)
      result == FindOne(s, f)
  IN [outcome |-> IF result = NoRecord THEN "NotFound" ELSE "resolved",
      ret |-> result,
      matches |-> CountDocuments(s, f)]

byID(id, optArchived) ==
  LET c == ByIDCall(store, id, optArchived)
  IN /\ last' = [NoCall EXCEPT !.op = "byID", !.tx = transaction,
                   !.outcome = c.outcome, !.ret = c.ret, !.zero = (c.matches = 0),
                   !.convIn = JSOr(optArchived, JSBool(FALSE)),
                   !.convOut = convertArchived(JSOr(optArchived, JSBool(FALSE))),
                   !.convCalled = TRUE,
                   !.handles = {"none", SessionOf(session)}]
     /\ UNCHANGED <<store, clock, transaction, pending, sdResolved, sdIntact>>

\* ---- byQuery (lines 154-183)
\* `if (archived) archived = convertArchived(archived)`, then `!archived`.
byQueryArchived(optArchived) ==
  IF Truthy(optArchived) THEN convertArchived(optArchived) ELSE FALSE

\* A variant that leaves the archival key out of the filter.
byQueryFilter_noArchivalKey(query, archived) ==
  LET q == Spread(query)
  IN MkFilter(q._id, q.idx, "none")

\* lines 163-168
byQueryFilter(query, archived) ==
  LET q == Spread(query)
  IN MkFilter(q._id, q.idx,
              IF ~archived THEN "deleted_at:undefined" ELSE "deleted_at:$ne")

ByQueryCall(s, query, optArchived) ==
  LET f == byQueryFilter(query, byQueryArchived(optArchived))
      result == FindOne(s, f)
  IN [outcome |-> IF result = NoRecord THEN "NotFound" ELSE "resolved",
      ret |-> result,
      matches |-> CountDocuments(s, f)]

byQuery(query, optArchived) ==
  LET c == ByQueryCall(store, query, optArchived)
  IN /\ last' = [NoCall EXCEPT !.op = "byQuery", !.tx = transaction,
                   !.outcome = c.outcome, !.ret = c.ret, !.zero = (c.matches = 0),
                   !.convIn = optArchived,
                   !.convOut = byQueryArchived(optArchived),
                   !.convCalled = Truthy(optArchived),
                   !.handles = {SessionOf(session)}]
     /\ UNCHANGED <<store, clock, transaction, pending, sdResolved, sdIntact>>

\* ---- all (lines 247-271), without skip and limit
allFilter(conditions, archived) ==
  MkFilter(conditions._id, conditions.idx,
           IF ~archived THEN "deleted_at:undefined" ELSE "$or")

AllCall(s, conditions, optArchived) ==
  Find(s, allFilter(conditions, convertArchived(JSOr(optArchived, JSBool(FALSE)))))

\* ---- update (lines 342-361)
update(condition, patch) ==
  LET query == getQuery(condition)
      j == FirstIndex(store, query)
      saved == ApplyPatch(store[j], patch, clock)
  IN /\ IF j = 0
        THEN /\ store' = store
             /\ sdIntact' = sdIntact
             /\ last' = [NoCall EXCEPT !.op = "update", !.tx = transaction,
                           !.outcome = "NotFound", !.zero = TRUE,
                           !.handles = {SessionOf(session)}]
        ELSE /\ store' = [store EXCEPT ![j] = saved]
             /\ sdIntact' = IF patch.v = "null"
                            THEN sdIntact \ {store[j]._id} ELSE sdIntact
             /\ last' = [NoCall EXCEPT !.op = "update", !.tx = transaction,
                           !.outcome = "resolved", !.ret = saved,
                           !.zero = (CountDocuments(store, query) = 0),
                           !.written = store[j]._id,
                           !.handles = {SessionOf(session)}]
     /\ UNCHANGED <<clock, transaction, pending, sdResolved>>

\* ---- updateMany (lines 368-383): the backend's updateMany, then all()
updateMany(condition, patch) ==
  LET query == getQuery(condition)
      after == UpdateManyIn(store, query, patch, clock)
      rows == AllCall(after, query, JSUndefined)
  IN /\ store' = after
     /\ sdIntact' = IF patch.v = "null"
                    THEN sdIntact \ IdsOf(Find(store, query)) ELSE sdIntact
     /\ last' = [NoCall EXCEPT !.op = "updateMany", !.tx = transaction,
                   !.outcome = "resolved",
                   !.zero = (CountDocuments(store, query) = 0),
                   !.retIds = [j \in 1..Len(rows) |-> rows[j]._id],
                   !.convIn = JSBool(FALSE), !.convCalled = TRUE,
                   !.handles = {SessionOf(session)}]
     /\ UNCHANGED <<clock, transaction, pending, sdResolved>>

\* ---- softDelete (lines 389-415), in its two backend steps
\* The state of the record a condition names by id, as the call finds it.
PreOf(s, condition) ==
  IF condition._id = 0 THEN "n/a"
  ELSE IF condition._id \notin IdsOf(s) THEN "absent"
  ELSE IF \E j \in 1..Len(s) :
            s[j]._id = condition._id /\ s[j].deleted_at # NoDate
       THEN "deleted" ELSE "live"

\* lines 390-394: getQuery, now = new Date(), await byQuery(condition),
\* old.deletedAt = now
softDeleteLookup(condition) ==
  LET c == ByQueryCall(store, condition, JSUndefined)
  IN /\ ~pending.active
     /\ IF c.outcome = "NotFound"
        THEN /\ pending' = pending
             /\ last' = [NoCall EXCEPT !.op = "softDelete", !.tx = transaction,
                           !.cond = condition, !.outcome = "NotFound",
                           !.zero = (CountDocuments(store, getQuery(condition)) = 0),
                           !.pre = PreOf(store, condition),
                           !.handles = {SessionOf(session)}]
        ELSE /\ pending' = [active |-> TRUE, cond |-> condition,
                            old |-> [c.ret EXCEPT !.deletedAt = clock],
                            pre |-> PreOf(store, condition),
                            zero |-> (CountDocuments(store, getQuery(condition)) = 0),
                            handles |-> {SessionOf(session)},
                            tx |-> transaction]
             /\ last' = last
     /\ UNCHANGED <<store, clock, transaction, sdResolved, sdIntact>>

\* A variant that writes the camelCase field softDelete sets on `old`.
softDeleteUpdate_camelCase(r, now) == [r EXCEPT !.deletedAt = now]

\* lines 398-400: the update document of findOneAndUpdate
softDeleteUpdate(r, now) == [r EXCEPT !.deleted_at = now]

\* lines 395-414: findOneAndUpdate(query, {deleted_at: new Date()}), then old
softDeleteWrite ==
  LET query == getQuery(pending.cond)
      j == FirstIndex(store, query)
  IN /\ pending.active
     /\ pending' = NoPending
     /\ IF j = 0
        THEN /\ store' = store
             /\ UNCHANGED <<sdResolved, sdIntact>>
             /\ last' = [NoCall EXCEPT !.op = "softDelete", !.tx = pending.tx,
                           !.cond = pending.cond,
                           !.outcome = "NotFound", !.zero = pending.zero,
                           !.pre = pending.pre,
                           !.handles = pending.handles \cup {SessionOf(session)}]
        ELSE /\ store' = [store EXCEPT ![j] = softDeleteUpdate(store[j], clock)]
             /\ sdResolved' = IF query._id # 0
                              THEN sdResolved \cup {query._id} ELSE sdResolved
             /\ sdIntact' = IF query._id # 0
                            THEN sdIntact \cup {query._id} ELSE sdIntact
             /\ last' = [NoCall EXCEPT !.op = "softDelete", !.tx = pending.tx,
                           !.cond = pending.cond,
                           !.outcome = "resolved", !.ret = pending.old,
                           !.zero = pending.zero, !.pre = pending.pre,
                           !.written = store[j]._id,
                           !.handles = pending.handles \cup {SessionOf(session)}]
     /\ UNCHANGED <<clock, transaction>>

\* ---- softDeleteMany (lines 421-446): all(), then the backend's updateMany
softDeleteMany(condition) ==
  LET query == getQuery(condition)
      rows == AllCall(store, query, JSUndefined)
  IN /\ store' = [j \in 1..Len(store) |->
                    IF Matches(store[j], query)
                    THEN [store[j] EXCEPT !.deleted_at = clock] ELSE store[j]]
     /\ last' = [NoCall EXCEPT !.op = "softDeleteMany", !.tx = transaction,
                   !.outcome = "resolved",
                   !.zero = (CountDocuments(store, query) = 0),
                   !.retIds = [j \in 1..Len(rows) |-> rows[j]._id],
                   !.convIn = JSBool(FALSE), !.convCalled = TRUE,
                   !.handles = {SessionOf(session)}]
     /\ UNCHANGED <<clock, transaction, pending, sdResolved, sdIntact>>

\* ---- delete (lines 452-455): findOneAndDelete, its result not looked at
delete(condition) ==
  LET query == getQuery(condition)
      j == FirstIndex(store, query)
      after == IF j = 0 THEN store ELSE RemoveAt(store, j)
  IN /\ store' = after
     /\ sdResolved' = sdResolved \cap IdsOf(after)
     /\ sdIntact' = sdIntact \cap IdsOf(after)
     /\ last' = [NoCall EXCEPT !.op = "delete", !.tx = transaction,
                   !.outcome = "resolved",
                   !.zero = (CountDocuments(store, query) = 0),
                   !.written = IF j = 0 THEN 0 ELSE store[j]._id,
                   !.handles = {SessionOf(session)}]
     /\ UNCHANGED <<clock, transaction, pending>>

\* ---- deleteMany (lines 461-464)
deleteMany(condition) ==
  LET query == getQuery(condition)
      after == DeleteManyIn(store, query)
  IN /\ store' = after
     /\ sdResolved' = sdResolved \cap IdsOf(after)
     /\ sdIntact' = sdIntact \cap IdsOf(after)
     /\ last' = [NoCall EXCEPT !.op = "deleteMany", !.tx = transaction,
                   !.outcome = "resolved",
                   !.zero = (CountDocuments(store, query) = 0),
                   !.handles = {SessionOf(session)}]
     /\ UNCHANGED <<clock, transaction, pending>>

\* ---- all, as a call
all(conditions, optArchived) ==
  LET rows == AllCall(store, Spread(conditions), optArchived)
  IN /\ last' = [NoCall EXCEPT !.op = "all", !.tx = transaction, !.cond = conditions,
                   !.arch = optArchived, !.outcome = "resolved",
                   !.retIds = [j \in 1..Len(rows) |-> rows[j]._id],
                   !.total = Len(rows),
                   !.convIn = JSOr(optArchived, JSBool(FALSE)),
                   !.convOut = convertArchived(JSOr(optArchived, JSBool(FALSE))),
                   !.convCalled = TRUE,
                   !.handles = {SessionOf(session)}]
     /\ UNCHANGED <<store, clock, transaction, pending, sdResolved, sdIntact>>

\* ---- paginate (lines 276-333)
DefaultLimit == 20

\* line 281: Number(pagination.page) - 1 || 0
pageIndex(inPage) == JSOr(JSMinusOne(ToNumber(inPage)), JSNum(0)).n

\* line 282: Number(pagination.limit) || 20
pageLimit(inLimit) == JSOr(ToNumber(inLimit), JSNum(DefaultLimit)).n

\* lines 286-291
paginateFilter(query, archived) ==
  LET q == Spread(query)
  IN MkFilter(q._id, q.idx,
              IF ~archived THEN "deletedAt:undefined" ELSE "deletedAt:$ne")

\* lines 307-311
pagePrev(page) == IF page > 0 THEN JSNum(page) ELSE JSNull
pageNext(page, length, limit) ==
  IF page < CeilDiv(length, limit) THEN JSNum(page + 2) ELSE JSNull

\* find(f).limit(limit).skip(offset), for offset >= 0
FindPage(s, f, limit, offset) ==
  LET rows == Find(s, f)
      hi == IF offset + limit < Len(rows) THEN offset + limit ELSE Len(rows)
  IN SubSeq(rows, offset + 1, hi)

\* A backend given a negative skip either fails the query (MongoDB, Postgres)
\* or reads from the first row (SQLite's OFFSET): `lenient` is which.
paginate(query, inPage, inLimit, optArchived, lenient) ==
  LET page == pageIndex(inPage)
      limit == pageLimit(inLimit)
      offset == page * limit
      archived == convertArchived(JSOr(optArchived, JSBool(FALSE)))
      dbQuery == paginateFilter(query, archived)
      count == CountDocuments(store, dbQuery)
      result == FindPage(store, dbQuery, limit, IF offset < 0 THEN 0 ELSE offset)
      call == [NoCall EXCEPT !.op = "paginate", !.tx = transaction, !.cond = query,
                 !.arch = optArchived, !.inPage = inPage, !.inLimit = inLimit,
                 !.page = page, !.limit = limit, !.offset = offset,
                 !.convIn = JSOr(optArchived, JSBool(FALSE)),
                 !.convOut = archived, !.convCalled = TRUE,
                 !.handles = {SessionOf(session)}]
  IN /\ lenient \/ offset < 0
     /\ last' = IF offset < 0 /\ ~lenient
                THEN [call EXCEPT !.outcome = "BackendError"]
                ELSE [call EXCEPT !.outcome = "resolved",
                        !.retIds = [j \in 1..Len(result) |-> result[j]._id],
                        !.current = page + 1,
                        !.prev = pagePrev(page),
                        !.next = pageNext(page, Len(result), limit),
                        !.total = count,
                        !.pages = CeilDiv(count, limit)]
     /\ UNCHANGED <<store, clock, transaction, pending, sdResolved, sdIntact>>

\* ---- connectDBSession / disconnectDBSession (lines 66-77)
connectDBSession(t) ==
  /\ transaction' = t
  /\ last' = [NoCall EXCEPT !.op = "connectDBSession", !.outcome = "resolved"]
  /\ UNCHANGED <<store, clock, pending, sdResolved, sdIntact>>

disconnectDBSession ==
  /\ transaction' = "null"
  /\ last' = [NoCall EXCEPT !.op = "disconnectDBSession", !.outcome = "resolved"]
  /\ UNCHANGED <<store, clock, pending, sdResolved, sdIntact>>

\* The private helper applied to any argument value.
applyConvertArchived(v) ==
  /\ last' = [NoCall EXCEPT !.op = "convertArchived", !.outcome = "resolved",
                !.convIn = v, !.convOut = convertArchived(v),
                !.convCalled = TRUE]
  /\ UNCHANGED <<store, clock, transaction, pending, sdResolved, sdIntact>>

\* ----------------------------------------------------------------- inputs
ArchivedInputs ==
  {JSUndefined, JSNull, JSBool(FALSE), JSBool(TRUE), JSStr("false"),
   JSStr("true"), JSStr(""), JSStr("False"), JSStr("yes"), JSNum(0), JSNum(1)}

\* The archived option the calls of Spec, SpecPage and SpecSession are given.
OptArchived == {JSUndefined, JSBool(TRUE), JSStr("false")}
PageArchived == {JSUndefined, JSBool(TRUE)}

\* Conditions: "i", {_id: i} and {}
CondInputs == {StrCond(i) : i \in Ids} \cup {ObjCond(i) : i \in {0} \cup Ids}

\* Filters given to byQuery, all and paginate: {} and {_id: i}
QueryInputs == {ObjCond(i) : i \in {0} \cup Ids}

PatchInputs == {[f |-> "deleted_at", v |-> "null"], [f |-> "deleted_at", v |-> "now"]}

PageInputs ==
  {JSUndefined, JSStr("abc")} \cup {JSNum(i) : i \in (0 - 1)..MaxPage}

LimitInputs == {JSUndefined} \cup {JSNum(i) : i \in 1..MaxLimit}

\* ------------------------------------------------------------ the actions
Create ==
  \E i \in Ids :
    create([_id |-> i, deleted_at |-> NoDate, deletedAt |-> NoDate])
ByID == \E i \in Ids, a \in OptArchived : byID(i, a)
ByQuery == \E q \in CondInputs, a \in OptArchived : byQuery(q, a)
Update == \E q \in CondInputs, p \in PatchInputs : update(q, p)
UpdateMany == \E q \in CondInputs, p \in PatchInputs : updateMany(q, p)
SoftDeleteLookup == \E q \in CondInputs : softDeleteLookup(q)
SoftDeleteMany == \E q \in CondInputs : softDeleteMany(q)
Delete == \E q \in CondInputs : delete(q)
DeleteMany == \E q \in CondInputs : deleteMany(q)
All == \E q \in QueryInputs, a \in PageArchived : all(q, a)
Paginate ==
  \E q \in QueryInputs, pg \in PageInputs, lm \in LimitInputs,
     a \in PageArchived, lenient \in BOOLEAN : paginate(q, pg, lm, a, lenient)
ConnectDBSession == \E t \in Handles : connectDBSession(t)
ByIDAnyArchived == \E i \in Ids, a \in ArchivedInputs : byID(i, a)
ByQueryAnyArchived == \E q \in QueryInputs, a \in ArchivedInputs : byQuery(q, a)
ApplyConvertArchived == \E v \in ArchivedInputs : applyConvertArchived(v)

\* --------------------------------------------------------- specifications
\* Spec: every call that writes the collection, with the single-record reads.
Next ==
  \/ Tick
  \/ Create
  \/ ByID
  \/ ByQuery
  \/ Update
  \/ UpdateMany
  \/ SoftDeleteLookup
  \/ softDeleteWrite
  \/ SoftDeleteMany
  \/ Delete
  \/ DeleteMany

Spec == Init /\ [][Next]_vars

\* SpecPage: the list reads over collections holding live and soft-deleted
\* records.
NextPage ==
  \/ Create
  \/ SoftDeleteMany
  \/ Delete
  \/ All
  \/ Paginate

SpecPage == Init /\ [][NextPage]_vars

\* SpecSession: attaching and detaching a transaction between calls.
NextSession ==
  \/ ConnectDBSession
  \/ disconnectDBSession
  \/ Create
  \/ ByID
  \/ ByQuery
  \/ SoftDeleteLookup
  \/ softDeleteWrite
  \/ Delete

SpecSession == Init /\ [][NextSession]_vars

\* SpecArchived: the archived option over every value a caller can pass.
NextArchived ==
  \/ Create
  \/ SoftDeleteLookup
  \/ softDeleteWrite
  \/ ByIDAnyArchived
  \/ ByQueryAnyArchived
  \/ All
  \/ ApplyConvertArchived

SpecArchived == Init /\ [][NextArchived]_vars
\* ------------------------------------------------------------- the claims
Max(a, b) == IF a > b THEN a ELSE b
SeqRange(q) == {q[j] : j \in 1..Len(q)}

\* C1: byID, byQuery, update, softDelete and delete each reject with NotFound
\* whenever no record matches the call's identity condition.
C1_NotFoundWhenNothingMatches ==
  (last.op \in {"byID", "byQuery", "update", "softDelete", "delete"} /\ last.zero)
    => last.outcome = "NotFound"

\* What the two byID calls of C2 give for id x on collection s: the default
\* lookup rejects with NotFound, the archived lookup resolves to the record
\* with its deletion timestamp set.
ReadsAsSoftDeleted(s, x) ==
  /\ ByIDCall(s, x, JSUndefined).outcome = "NotFound"
  /\ ByIDCall(s, x, JSBool(TRUE)).outcome = "resolved"
  /\ ByIDCall(s, x, JSBool(TRUE)).ret._id = x
  /\ ByIDCall(s, x, JSBool(TRUE)).ret.deleted_at # NoDate

\* C2 as stated: once softDelete on the record with id x has resolved, and for
\* as long as x is not hard-deleted, byID(x) rejects with NotFound and
\* byID(x, {archived: true}) resolves to the record with its deletion
\* timestamp set.
C2_SoftDeletedUntilHardDeleted ==
  \A x \in sdResolved : ReadsAsSoftDeleted(store, x)

\* C2 as amended: the same, for as long as x is not hard-deleted and no update
\* or updateMany has cleared its deletion timestamp.
C2_SoftDeletedUntilHardDeletedOrCleared ==
  \A x \in sdIntact : ReadsAsSoftDeleted(store, x)

\* A byID(x, {archived: true}) that resolved for an id whose softDelete resolved.
C2_Witness ==
  /\ last.op = "byID"
  /\ last.outcome = "resolved"
  /\ last.convOut
  /\ last.ret._id \in sdIntact

\* C3: in a paginate result with limit > 0 and requested page >= 1, page.next
\* is null when offset + data.length >= total and page.current + 1 otherwise.
C3_NextPage ==
  (/\ last.op = "paginate"
   /\ last.outcome = "resolved"
   /\ last.limit > 0
   /\ ToNumber(last.inPage).k = "number"
   /\ ToNumber(last.inPage).n >= 1)
    => last.next = IF last.offset + Len(last.retIds) >= last.total
                   THEN JSNull ELSE JSNum(last.current + 1)

\* C4: for every request.page, paginate uses the page index
\* max(0, toNumber(page) - 1) (0 for an absent or non-numeric page):
\* offset = index * limit, never negative, and page.current = index + 1.
C4_PageIndex ==
  last.op = "paginate" =>
    LET index == IF ToNumber(last.inPage).k = "number"
                 THEN Max(0, ToNumber(last.inPage).n - 1) ELSE 0
    IN /\ last.page = index
       /\ last.offset = index * last.limit
       /\ last.offset >= 0
       /\ last.outcome = "resolved" => last.current = index + 1

\* C5: in every paginate result page.prev is null when page.current = 1 and
\* page.current - 1 otherwise.
C5_PrevPage ==
  (last.op = "paginate" /\ last.outcome = "resolved")
    => last.prev = IF last.current = 1 THEN JSNull ELSE JSNum(last.current - 1)

\* C6: convertArchived returns false for exactly undefined, null, false and
\* the string "false", and true for every other value.
C6_ConvertArchived ==
  last.convCalled =>
    (last.convOut = FALSE
       <=> last.convIn \in {JSUndefined, JSNull, JSBool(FALSE), JSStr("false")})

\* convertArchived was given the empty string and returned true.
C6_Witness ==
  /\ last.op = "convertArchived"
  /\ last.convIn = JSStr("")
  /\ last.convOut = TRUE

\* C7: a call makes its backend calls with the transaction attached when it
\* was issued (none when none was attached); connecting and disconnecting
\* make no backend call.
C7_CallsUseAttachedHandle ==
  /\ last.op \in {"create", "byID", "byQuery", "softDelete", "delete"}
       => last.handles = {withTransaction(last.tx)}
  /\ last.op \in {"connectDBSession", "disconnectDBSession"}
       => last.handles = {}

\* C8: the records paginate counts and draws its data from are the records
\* all() returns for the same filter and archived option.
C8_PaginateIsAllPaginated ==
  (last.op = "paginate" /\ last.outcome = "resolved")
    => /\ last.total = Len(AllCall(store, Spread(last.cond), last.arch))
       /\ SeqRange(last.retIds)
            \subseteq IdsOf(AllCall(store, Spread(last.cond), last.arch))

\* C9: a softDelete called on an id whose record already has its deletion
\* timestamp set, or was hard-deleted, rejects with NotFound and writes
\* nothing to the collection.
C9_SecondSoftDelete ==
  (last.op = "softDelete" /\ last.pre \in {"deleted", "absent"})
    => (last.outcome = "NotFound" /\ last.written = 0)

\* A second softDelete({_id: x}) on a record an earlier softDelete stamped, at
\* a later time than the stamp: it rejected and the stamp is the earlier one.
C9_Witness ==
  /\ last.op = "softDelete"
  /\ last.pre = "deleted"
  /\ last.outcome = "NotFound"
  /\ last.cond.t = "object"
  /\ last.cond._id \in sdResolved
  /\ \E j \in 1..Len(store) :
       /\ store[j]._id = last.cond._id
       /\ store[j].deleted_at # NoDate
       /\ store[j].deleted_at < clock

\* C10: a softDelete that resolves with record r wrote the deletion timestamp
\* of r and of no other record.
C10_ReturnsTheRecordItStamped ==
  (last.op = "softDelete" /\ last.outcome = "resolved")
    => last.written = last.ret._id
====
